---------------------------- MODULE Spec2Model ----------------------------
(***************************************************************************)
(* Upload plug-in "file-spec-uploader-pdf-to-jpg".                         *)
(*                                                                         *)
(* Two entry points are modelled:                                          *)
(*   - plugin.upload.Uploader, which inherits BaseUploader's pipeline      *)
(*     (src/plugin/__init__.py) and overrides before_process with the PDF  *)
(*     conversion (src/plugin/upload.py);                                  *)
(*   - implemented_code.Uploader (src/implemented_code.py), a stand-alone  *)
(*     class whose handle_upload_files only runs its own validator.        *)
(*                                                                         *)
(* Data encoding.                                                          *)
(*   A path is a record [dir, stem, page, suffix]: dir 0 is the upload     *)
(*   directory and dir k > 0 the k-th directory made by tempfile.mkdtemp;  *)
(*   page n > 0 stands for the file name "<stem>_page_<n><suffix>".        *)
(*   A slot value is [list, items]: a bare path (list = FALSE, one item)   *)
(*   or a Python list of paths.  A slot name is the sequence of its        *)
(*   '_'-separated segments: "image_0" is <<"image", "0">>.  A files dict  *)
(*   is the sequence of its (name, value) entries in insertion order.      *)
(*   A group is [files, meta]; meta.present says whether the group has a   *)
(*   'meta' key, and an absent meta entry holds its sentinel value.        *)
(***************************************************************************)
EXTENDS Integers, Sequences, FiniteSets, TLC

VARIABLES
    impl,               \* which class was constructed: "plugin" or "implemented"
    file_specification, \* self.file_specification
    organized_files,    \* self.organized_files
    pc,                 \* position inside the running call
    current_files,      \* handle_upload_files' local current_files
    calls,              \* stage invocations so far: [stage, arg, ret]
    log,                \* lines given to run.log_message / log_message_with_code
    tmpdirs,            \* number of directories tempfile.mkdtemp has made
    attempts,           \* before_process: what happened to each input group
    vres,               \* results of the validate_file_types calls made so far
    result              \* what the call returned (or the exception it raised)

vars == <<impl, file_specification, organized_files, pc, current_files, calls,
          log, tmpdirs, attempts, vres, result>>

(***************************************************************************)
(* Bounds of the model.                                                    *)
(***************************************************************************)
\* Total number of file slots in the list given to the constructor.
MaxSlots == 2
\* Largest number of pages the converter returns for one document.
MaxPages == 2

(***************************************************************************)
(* Sequences helpers.                                                      *)
(***************************************************************************)
InList(x, list) == \E i \in 1..Len(list) : list[i] = x

Range(list) == {list[i] : i \in 1..Len(list)}

(***************************************************************************)
(* Paths.                                                                  *)
(***************************************************************************)
\* str.lower() on the extensions that occur.
Lower(e) ==
    CASE e = ".PNG" -> ".png"
      [] e = ".PDF" -> ".pdf"
      [] e = ".TIF" -> ".tif"
      [] OTHER -> e

\* Path.name
PathName(p) == [stem |-> p.stem, page |-> p.page, suffix |-> p.suffix]

Path(e) == [dir |-> 0, stem |-> "a", page |-> 0, suffix |-> e]

Bare(p) == [list |-> FALSE, items |-> <<p>>]

PyList(ps) == [list |-> TRUE, items |-> ps]

\* str.split('_')[0]
FirstSegment(spec_name) == spec_name[1]

\* next((s for s in self.file_specification if s['name'] == spec_name), None):
\* the index of the first entry with that name, 0 for None.
RECURSIVE FindSpecFrom(_, _, _)
FindSpecFrom(specs, spec_name, i) ==
    IF i > Len(specs) THEN 0
    ELSE IF specs[i].name = spec_name THEN i
    ELSE FindSpecFrom(specs, spec_name, i + 1)

FindSpec(specs, spec_name) == FindSpecFrom(specs, spec_name, 1)


(***************************************************************************)
(* Ordered dicts (Python dicts keep insertion order; assigning to a key    *)
(* that exists keeps its place).  A dict is a sequence of [key, val].      *)
(***************************************************************************)
RECURSIVE DictIndexFrom(_, _, _)
DictIndexFrom(d, key, i) ==
    IF i > Len(d) THEN 0
    ELSE IF d[i].key = key THEN i
    ELSE DictIndexFrom(d, key, i + 1)

DictIndex(d, key) == DictIndexFrom(d, key, 1)

DictPut(d, key, val) ==
    LET i == DictIndex(d, key) IN
    IF i = 0 THEN Append(d, [key |-> key, val |-> val])
    ELSE [d EXCEPT ![i] = [key |-> key, val |-> val]]

(***************************************************************************)
(* implemented_code.Uploader.validate_file_types                           *)
(***************************************************************************)
allowed_extensions ==
    [pcd   |-> <<".pcd">>,
     text  |-> <<".txt", ".html">>,
     audio |-> <<".wav", ".mp3">>,
     data  |-> <<".bin", ".json", ".fbx">>,
     image |-> <<".jpg", ".jpeg", ".png">>,
     video |-> <<".mp4">>]

warning_extensions == <<".tif", ".tiff", ".avi", ".mov", ".mkv", ".wmv">>

conversion_warnings ==
    (".tif" :> " .jpg, .png") @@ (".tiff" :> " .jpg, .png") @@
    (".avi" :> " .mp4") @@ (".mov" :> " .mp4") @@
    (".mkv" :> " .mp4") @@ (".wmv" :> " .mp4")

\* What one iteration of the slot loop does.
SlotPass           == [kind |-> "pass",    ext |-> "", expected |-> <<>>, exc |-> ""]
SlotWarning(e)     == [kind |-> "warning", ext |-> e,  expected |-> <<>>, exc |-> ""]
SlotInvalid(e, ex) == [kind |-> "invalid", ext |-> e,  expected |-> ex,   exc |-> ""]
SlotRaise(x)       == [kind |-> "raise",   ext |-> "", expected |-> <<>>, exc |-> x]
SlotSkip           == [kind |-> "skip",    ext |-> "", expected |-> <<>>, exc |-> ""]

\* file_path = file_path[0] if len(file_path) == 1 else file_path:
\* TRUE when what is left is a single path.
ImplIsPath(value) == ~value.list \/ Len(value.items) = 1

\* file_extension = file_path.suffix.lower()
ImplExtension_NoLower(value) == value.items[1].suffix

ImplExtension(value) == Lower(value.items[1].suffix)

\* The three checks on an extension, in the order of the slot loop's body.
ImplCheck_NoWarning(spec_name, file_type, ext) ==
    LET file_category == FirstSegment(spec_name) IN
    IF file_category \in DOMAIN allowed_extensions
      THEN IF InList(ext, allowed_extensions[file_category]) THEN SlotPass
           ELSE SlotInvalid(ext, allowed_extensions[file_category])
    ELSE IF file_type \in DOMAIN allowed_extensions
      THEN IF InList(ext, allowed_extensions[file_type]) THEN SlotPass
           ELSE SlotRaise("KeyError")
    ELSE SlotPass

ImplCheck_TypeFirst(spec_name, file_type, ext) ==
    LET file_category == FirstSegment(spec_name) IN
    IF InList(ext, warning_extensions) THEN SlotWarning(ext)
    ELSE IF file_type \in DOMAIN allowed_extensions
      THEN IF InList(ext, allowed_extensions[file_type]) THEN SlotPass
           ELSE SlotInvalid(ext, allowed_extensions[file_type])
    ELSE IF file_category \in DOMAIN allowed_extensions
      THEN IF InList(ext, allowed_extensions[file_category]) THEN SlotPass
           ELSE SlotInvalid(ext, allowed_extensions[file_category])
    ELSE SlotPass

ImplCheck(spec_name, file_type, ext) ==
    LET file_category == FirstSegment(spec_name) IN
    IF InList(ext, warning_extensions) THEN SlotWarning(ext)
    ELSE IF file_category \in DOMAIN allowed_extensions
      THEN IF InList(ext, allowed_extensions[file_category]) THEN SlotPass
           ELSE SlotInvalid(ext, allowed_extensions[file_category])
    ELSE IF file_type \in DOMAIN allowed_extensions
      THEN IF InList(ext, allowed_extensions[file_type]) THEN SlotPass
           \* case['expected'] = allowed_extensions[file_category], and
           \* file_category is not a key here
           ELSE SlotRaise("KeyError")
    ELSE SlotPass

\* One iteration of the slot loop: file_spec['file_type'] with file_spec None
\* raises TypeError; .suffix of a list raises AttributeError.
ImplSlot(specs, spec_name, value) ==
    LET k == FindSpec(specs, spec_name) IN
    IF k = 0 THEN SlotRaise("TypeError")
    ELSE IF ~ImplIsPath(value) THEN SlotRaise("AttributeError")
    ELSE ImplCheck(spec_name, specs[k].file_type, ImplExtension(value))

\* The slot loop over one group, from slot i on: where and how it ended.
\* slot is the last slot the loop visited (the loop variable spec_name after
\* the loop), 0 for an empty files dict.
RECURSIVE ImplScan(_, _, _)
ImplScan(specs, files, i) ==
    IF i > Len(files)
      THEN [step |-> SlotPass, slot |-> Len(files)]
    ELSE LET s == ImplSlot(specs, files[i].name, files[i].value) IN
         IF s.kind = "pass" THEN ImplScan(specs, files, i + 1)
         ELSE [step |-> s, slot |-> i]

\* all_violation_case[spec_name] = {'invalid': ..., 'warning': ...}
ImplViolation(step) ==
    [invalid  |-> IF step.kind = "invalid" THEN <<step.ext>> ELSE <<>>,
     expected |-> step.expected,
     warning  |-> IF step.kind = "warning" THEN <<step.ext>> ELSE <<>>]

ImplRecord(all_violation_case, spec_name, step) ==
    DictPut(all_violation_case, spec_name, ImplViolation(step))

\* The loop over the groups, from group g on.  acc = [valid, kept, violations,
\* trace, raised]: valid_files, the indices of the groups appended to it,
\* all_violation_case, one scan result per group visited, the exception.
RECURSIVE ImplGroups(_, _, _, _)
ImplGroups(specs, groups, g, acc) ==
    IF g > Len(groups) THEN acc
    ELSE LET files == groups[g].files
             scan  == ImplScan(specs, files, 1)
             trace == Append(acc.trace, scan)
         IN
         IF scan.step.kind = "raise"
           THEN [acc EXCEPT !.trace = trace, !.raised = scan.step.exc]
         ELSE IF scan.step.kind \in {"invalid", "warning"}
           THEN ImplGroups(specs, groups, g + 1,
                    [acc EXCEPT !.trace = trace,
                                !.violations = ImplRecord(acc.violations,
                                                   files[scan.slot].name, scan.step)])
         ELSE ImplGroups(specs, groups, g + 1,
                    [acc EXCEPT !.trace = trace,
                                !.valid = Append(acc.valid, groups[g]),
                                !.kept = Append(acc.kept, g)])

\* The messages of the final loop over all_violation_case.
ImplValidationLine(spec_name, v) ==
    [kind |-> "validation", name |-> spec_name, exts |-> v.invalid,
     expected |-> v.expected, text |-> ""]

ImplConversionLine(spec_name, w) ==
    [kind |-> "conversion", name |-> spec_name, exts |-> <<w>>,
     expected |-> <<>>, text |-> conversion_warnings[w]]

ImplEntryLines(e) ==
    (IF e.val.invalid # <<>> THEN <<ImplValidationLine(e.key, e.val)>> ELSE <<>>)
    \o (IF e.val.warning # <<>> /\ e.val.warning[1] \in DOMAIN conversion_warnings
          THEN <<ImplConversionLine(e.key, e.val.warning[1])>> ELSE <<>>)

RECURSIVE ImplReport(_, _)
ImplReport(violations, i) ==
    IF i > Len(violations) THEN <<>>
    ELSE ImplEntryLines(violations[i]) \o ImplReport(violations, i + 1)

\* A validator that puts every group it keeps at the front of valid_files.
ImplValidate_Prepends(specs, groups) ==
    LET acc == ImplGroups(specs, groups, 1,
                   [valid |-> <<>>, kept |-> <<>>, violations |-> <<>>,
                    trace |-> <<>>, raised |-> ""])
        n   == Len(acc.valid)
    IN [raised     |-> acc.raised,
        valid      |-> IF acc.raised = ""
                         THEN [k \in 1..n |-> acc.valid[n + 1 - k]] ELSE <<>>,
        kept       |-> acc.kept,
        violations |-> acc.violations,
        trace      |-> acc.trace,
        lines      |-> IF acc.raised = "" THEN ImplReport(acc.violations, 1) ELSE <<>>]

\* validate_file_types(organized_files): raised = "" when it returns valid.
ImplValidate(specs, groups) ==
    LET acc == ImplGroups(specs, groups, 1,
                   [valid |-> <<>>, kept |-> <<>>, violations |-> <<>>,
                    trace |-> <<>>, raised |-> ""])
    IN [raised     |-> acc.raised,
        valid      |-> IF acc.raised = "" THEN acc.valid ELSE <<>>,
        kept       |-> acc.kept,
        violations |-> acc.violations,
        trace      |-> acc.trace,
        lines      |-> IF acc.raised = "" THEN ImplReport(acc.violations, 1) ELSE <<>>]

(***************************************************************************)
(* BaseUploader.validate_file_types (used by plugin.upload.Uploader)       *)
(***************************************************************************)
\* get_file_extensions_config()
get_file_extensions_config ==
    [video |-> <<".mp4", ".avi", ".mov", ".mkv", ".webm", ".flv", ".wmv">>,
     image |-> <<".jpg", ".jpeg", ".png">>,
     pcd   |-> <<".pcd">>,
     text  |-> <<".txt", ".html">>,
     audio |-> <<".mp3", ".wav">>,
     data  |-> <<".xml", ".bin", ".json", ".fbx">>]

\* if isinstance(file_path, list): file_path = file_path[0] if file_path else None
\* TRUE when file_path is None afterwards.
BaseIsNone(value) == value.list /\ Len(value.items) = 0

BaseExtension(value) == Lower(value.items[1].suffix)

\* allowed_exts = [ext.lower() for ext in allowed_extensions_config[file_type]]
BaseAllowedExts(file_type) ==
    [i \in 1..Len(get_file_extensions_config[file_type]) |->
        Lower(get_file_extensions_config[file_type][i])]
\* A slot loop that accepts whatever a slot holds.
BaseSlot_AcceptsAll(specs, spec_name, value) == SlotPass


BaseSlot(specs, spec_name, value) ==
    LET k == FindSpec(specs, spec_name) IN
    IF k = 0 THEN SlotSkip
    ELSE IF BaseIsNone(value) THEN SlotSkip
    ELSE LET file_type == specs[k].file_type
             file_extension == BaseExtension(value)
         IN IF file_type \in DOMAIN get_file_extensions_config
                 /\ ~InList(file_extension, BaseAllowedExts(file_type))
              THEN SlotInvalid(file_extension, BaseAllowedExts(file_type))
            ELSE SlotPass

\* The slot loop over one group, from slot i on; slot is where it broke off
\* (0 when it ran to the end).
RECURSIVE BaseScan(_, _, _)
BaseScan(specs, files, i) ==
    IF i > Len(files)
      THEN [step |-> SlotPass, slot |-> 0]
    ELSE LET s == BaseSlot(specs, files[i].name, files[i].value) IN
         IF s.kind \in {"pass", "skip"} THEN BaseScan(specs, files, i + 1)
         ELSE [step |-> s, slot |-> i]

\* filtered_by_type[file_type]['extensions'].add(...); ['count'] += 1
BaseTrack(filtered_by_type, file_type, file_extension) ==
    LET i   == DictIndex(filtered_by_type, file_type)
        old == IF i = 0 THEN [extensions |-> {}, count |-> 0]
               ELSE filtered_by_type[i].val
        shown == IF file_extension # "" THEN file_extension ELSE "(no extension)"
    IN DictPut(filtered_by_type, file_type,
               [extensions |-> old.extensions \cup {shown}, count |-> old.count + 1])

RECURSIVE BaseGroups(_, _, _, _)
BaseGroups(specs, groups, g, acc) ==
    IF g > Len(groups) THEN acc
    ELSE LET files == groups[g].files
             scan  == BaseScan(specs, files, 1)
             trace == Append(acc.trace, scan)
         IN
         IF scan.step.kind = "invalid"
           THEN LET k == FindSpec(specs, files[scan.slot].name) IN
                BaseGroups(specs, groups, g + 1,
                    [acc EXCEPT !.trace = trace,
                                !.violations = BaseTrack(acc.violations,
                                      specs[k].file_type, scan.step.ext)])
         ELSE BaseGroups(specs, groups, g + 1,
                    [acc EXCEPT !.trace = trace,
                                !.valid = Append(acc.valid, groups[g]),
                                !.kept = Append(acc.kept, g)])

\* _log_filtered_files: one log_message_with_code call per tracked type.
BaseFilteredLine(e) ==
    [kind |-> "FILES_FILTERED_BY_EXTENSION", count |-> e.val.count,
     file_type |-> e.key, extensions |-> e.val.extensions,
     allowed |-> get_file_extensions_config[e.key]]

RECURSIVE BaseReport(_, _)
BaseReport(filtered_by_type, i) ==
    IF i > Len(filtered_by_type) THEN <<>>
    ELSE (IF filtered_by_type[i].val.count > 0
            THEN <<BaseFilteredLine(filtered_by_type[i])>> ELSE <<>>)
         \o BaseReport(filtered_by_type, i + 1)

\* validate_file_types(organized_files)
BaseValidate(specs, groups) ==
    IF groups = <<>> \/ specs = <<>>
      THEN [raised |-> "", valid |-> groups,
            kept |-> [i \in 1..Len(groups) |-> i],
            violations |-> <<>>, trace |-> <<>>, lines |-> <<>>]
    ELSE LET acc == BaseGroups(specs, groups, 1,
                       [valid |-> <<>>, kept |-> <<>>, violations |-> <<>>,
                        trace |-> <<>>])
         IN [raised |-> "", valid |-> acc.valid, kept |-> acc.kept,
             violations |-> acc.violations, trace |-> acc.trace,
             lines |-> BaseReport(acc.violations, 1)]

\* validate_files(files): validate_file_types, then _filter_valid_files,
\* which returns its argument.
BaseFilterValidFiles(files) == files

\* A validator that leaves the first group of its input unexamined and out
\* of its result.
Validate_DropsFirst(class, specs, groups) ==
    IF class = "plugin" THEN BaseValidate(specs, SubSeq(groups, 2, Len(groups)))
    ELSE ImplValidate(specs, SubSeq(groups, 2, Len(groups)))

\* The validator of the class that was constructed.
Validate(class, specs, groups) ==
    IF class = "plugin" THEN BaseValidate(specs, groups)
    ELSE ImplValidate(specs, groups)

(***************************************************************************)
(* plugin.upload.Uploader.before_process                                   *)
(***************************************************************************)
NoName == [stem |-> "", page |-> 0, suffix |-> ""]

\* A group without a 'meta' key, and the entries a meta dict can hold.
NoMeta ==
    [present |-> FALSE, label |-> "", total_pages |-> -1, page_number |-> -1,
     original_filename |-> NoName, extraction_library |-> ""]

\* What the external calls of one conversion attempt do: convert_from_path
\* raises, or returns `pages` images of which image.save raises on the
\* failAt-th (0: on none).
ConvertRaises == [raises |-> TRUE, pages |-> 0, failAt |-> 0]

Outcomes ==
    {ConvertRaises} \cup
    UNION {{[raises |-> FALSE, pages |-> n, failAt |-> f] : f \in 0..n} :
              n \in 0..MaxPages}

IsPdf(value) ==
    /\ ~(value.list /\ Len(value.items) = 0)
    /\ Lower(value.items[1].suffix) = ".pdf"

\* The first slot from i on that holds a PDF: where the slot loop leaves by
\* one of its two breaks (0: it runs to the end).
RECURSIVE PdfSlot(_, _)
PdfSlot(files, i) ==
    IF i > Len(files) THEN 0
    ELSE IF IsPdf(files[i].value) THEN i
    ELSE PdfSlot(files, i + 1)

\* image_path = temp_dir / f'{file_path.stem}_page_{page_num}.png'
ImagePath(temp_dir, file_path, page_num) ==
    [dir |-> temp_dir, stem |-> file_path.stem, page |-> page_num, suffix |-> ".png"]

\* A page group whose page numbers start at 0.
PageGroup_ZeroBased(file_group, spec_name, file_path, temp_dir, total_pages, page_num) ==
    [files |-> <<[name |-> spec_name,
                  value |-> Bare(ImagePath(temp_dir, file_path, page_num))]>>,
     meta  |-> [file_group.meta EXCEPT
                   !.present = TRUE,
                   !.total_pages = total_pages,
                   !.page_number = page_num - 1,
                   !.original_filename = PathName(file_path),
                   !.extraction_library = "pdf2image"]]

\* A page group that keeps the other slots of the original group beside the
\* image.
PageGroup_WithSiblings(file_group, spec_name, file_path, temp_dir, total_pages, page_num) ==
    [files |-> [i \in 1..Len(file_group.files) |->
                  IF file_group.files[i].name = spec_name
                    THEN [name |-> spec_name,
                          value |-> Bare(ImagePath(temp_dir, file_path, page_num))]
                  ELSE file_group.files[i]],
     meta  |-> [file_group.meta EXCEPT
                   !.present = TRUE,
                   !.total_pages = total_pages,
                   !.page_number = page_num,
                   !.original_filename = PathName(file_path),
                   !.extraction_library = "pdf2image"]]

\* The page group of page page_num: the non-file attributes copied, the four
\* meta entries set, the image at the document's slot name.
PageGroup(file_group, spec_name, file_path, temp_dir, total_pages, page_num) ==
    [files |-> <<[name |-> spec_name,
                  value |-> Bare(ImagePath(temp_dir, file_path, page_num))]>>,
     meta  |-> [file_group.meta EXCEPT
                   !.present = TRUE,
                   !.total_pages = total_pages,
                   !.page_number = page_num,
                   !.original_filename = PathName(file_path),
                   !.extraction_library = "pdf2image"]]

PageLine(page_num, image_path) ==
    [kind |-> "converted_page", page |-> page_num, path |-> image_path]

SuccessLine(file_path, n) ==
    [kind |-> "converted_pdf", page |-> n, path |-> file_path]

ErrorLine(file_path) ==
    [kind |-> "error_converting", page |-> 0, path |-> file_path]

\* The original group as the code rebuilds it when no PDF was converted:
\* the same attributes, the same file values under the same names.
PassThrough(file_group) ==
    [files |-> [i \in 1..Len(file_group.files) |-> file_group.files[i]],
     meta  |-> file_group.meta]

\* The page groups 1..n of one document, in page order.
PageGroups(file_group, spec_name, file_path, temp_dir, total_pages, n) ==
    [k \in 1..n |->
        PageGroup(file_group, spec_name, file_path, temp_dir, total_pages, k)]

PageLines(file_path, temp_dir, n) ==
    [k \in 1..n |-> PageLine(k, ImagePath(temp_dir, file_path, k))]

ConvertGroup(file_group, oc, tmp) ==
    LET files == file_group.files
        s     == PdfSlot(files, 1)
    IN
    IF s = 0
      THEN [out |-> <<PassThrough(file_group)>>, lines |-> <<>>, tmp |-> tmp,
            slot |-> 0, converted |-> FALSE, failed |-> FALSE, saved |-> 0]
    ELSE
      LET spec_name == files[s].name
          file_path == files[s].value.items[1]
      IN
      IF oc.raises
        \* convert_from_path raised: except, break, the original is appended
        THEN [out |-> <<PassThrough(file_group)>>,
              lines |-> <<ErrorLine(file_path)>>, tmp |-> tmp,
              slot |-> s, converted |-> FALSE, failed |-> TRUE, saved |-> 0]
      ELSE IF oc.failAt \in 1..oc.pages
        \* image.save raised on page failAt: the pages before it are already
        \* in converted_files, and the original is appended after them
        THEN [out |-> PageGroups(file_group, spec_name, file_path, tmp + 1,
                                 oc.pages, oc.failAt - 1)
                        \o <<PassThrough(file_group)>>,
              lines |-> PageLines(file_path, tmp + 1, oc.failAt - 1)
                          \o <<ErrorLine(file_path)>>,
              tmp |-> tmp + 1,
              slot |-> s, converted |-> FALSE, failed |-> TRUE,
              saved |-> oc.failAt - 1]
      ELSE [out |-> PageGroups(file_group, spec_name, file_path, tmp + 1,
                               oc.pages, oc.pages),
            lines |-> PageLines(file_path, tmp + 1, oc.pages)
                        \o <<SuccessLine(file_path, oc.pages)>>,
            tmp |-> tmp + 1,
            slot |-> s, converted |-> TRUE, failed |-> FALSE, saved |-> oc.pages]

\* before_process(organized_files) from group g on; ocs[g] is what the
\* external calls do for group g.  acc = [out, lines, tmp, attempts];
\* attempts[g] says where group g's block lies in the output.
RECURSIVE ConvertGroups(_, _, _, _)
ConvertGroups(groups, ocs, g, acc) ==
    IF g > Len(groups) THEN acc
    ELSE LET r == ConvertGroup(groups[g], ocs[g], acc.tmp) IN
         ConvertGroups(groups, ocs, g + 1,
            [out      |-> acc.out \o r.out,
             lines    |-> acc.lines \o r.lines,
             tmp      |-> r.tmp,
             attempts |-> Append(acc.attempts,
                             [slot |-> r.slot, oc |-> ocs[g],
                              converted |-> r.converted, failed |-> r.failed,
                              saved |-> r.saved,
                              first |-> Len(acc.out) + 1,
                              count |-> Len(r.out),
                              lines |-> r.lines])])

before_process(groups, ocs, tmp) ==
    ConvertGroups(groups, ocs, 1,
        [out |-> <<>>, lines |-> <<>>, tmp |-> tmp, attempts |-> <<>>])

(***************************************************************************)
(* The inputs given to the constructor.                                    *)
(***************************************************************************)
image_0 == <<"image", "0">>
doc_0   == <<"doc", "0">>

\* image_0 is named as an image; doc_0 has a prefix no extension table knows.
SlotNames == {image_0, doc_0}

\* Both slots declared images.
ImageSpecs ==
    <<[name |-> image_0, file_type |-> "image"],
      [name |-> doc_0,   file_type |-> "image"]>>

\* Both slots declared videos (image_0 against its name).
VideoSpecs ==
    <<[name |-> image_0, file_type |-> "video"],
      [name |-> doc_0,   file_type |-> "video"]>>

\* No specification for doc_0.
PartialSpecs == <<[name |-> image_0, file_type |-> "image"]>>

SpecLists == {<<>>, ImageSpecs, VideoSpecs, PartialSpecs}

LabelMeta == [NoMeta EXCEPT !.present = TRUE, !.label = "x"]

NamesOf(files) == {files[i].name : i \in 1..Len(files)}

\* The files dicts with n entries (keys are unique).
RECURSIVE FilesDicts(_, _, _)
FilesDicts(n, names, values) ==
    IF n = 0 THEN {<<>>}
    ELSE UNION {{Append(f, [name |-> nm, value |-> v]) :
                    nm \in names \ NamesOf(f), v \in values} :
                f \in FilesDicts(n - 1, names, values)}

\* The lists of at most len groups with at most budget slots in all, every
\* group carrying meta.
RECURSIVE GroupLists(_, _, _, _, _)
GroupLists(budget, len, names, values, meta) ==
    IF len = 0 THEN {<<>>}
    ELSE {<<>>} \cup
         UNION {UNION {{<<[files |-> f, meta |-> meta]>> \o rest :
                          rest \in GroupLists(budget - n, len - 1, names, values, meta)} :
                       f \in FilesDicts(n, names, values)} :
                n \in 0..budget}

\* Inputs of the validators: allowed, upper-case, disallowed and
\* conversion-warning extensions, and an empty list in a slot.
ValidatorValues ==
    {Bare(Path(e)) : e \in {".png", ".PNG", ".bmp", ".tif", ".mp4"}}
      \cup {PyList(<<>>)}

ValidatorInputs == GroupLists(MaxSlots, MaxSlots, SlotNames, ValidatorValues, NoMeta)

\* Inputs of the conversion: documents beside images.
ConvertValues == {Bare(Path(e)) : e \in {".png", ".pdf", ".PDF"}}

ConvertInputs ==
    UNION {GroupLists(MaxSlots, MaxSlots, SlotNames, ConvertValues, m) :
              m \in {NoMeta, LabelMeta}}

\* Inputs of the whole workflow.
UploadValues == {Bare(Path(e)) : e \in {".png", ".bmp", ".pdf"}}

UploadInputs == GroupLists(MaxSlots, MaxSlots, SlotNames, UploadValues, NoMeta)

(***************************************************************************)
(* State.                                                                  *)
(***************************************************************************)
Stage(name, arg, ret) == [stage |-> name, arg |-> arg, ret |-> ret]

Returned(files) == [raised |-> "", files |-> files]

Raised(exc) == [raised |-> exc, files |-> <<>>]

NoResult == [raised |-> "pending", files |-> <<>>]

TypeOK ==
    /\ impl \in {"plugin", "implemented"}
    /\ pc \in {"handle_upload_files", "setup_directories", "organize_files",
               "before_process", "process_files", "after_process",
               "validate_files", "return", "call_before_process",
               "validate_file_types", "validate_again", "validate_lowered",
               "done"}
    /\ tmpdirs \in Nat
    /\ Len(vres) <= 3

InitState(classes, speclists, lists, start) ==
    /\ impl \in classes
    /\ file_specification \in speclists
    /\ organized_files \in lists
    /\ pc = start
    /\ current_files = <<>>
    /\ calls = <<>>
    /\ log = <<>>
    /\ tmpdirs = 0
    /\ attempts = <<>>
    /\ vres = <<>>
    /\ result = NoResult

(***************************************************************************)
(* handle_upload_files                                                     *)
(***************************************************************************)
Init == InitState({"plugin", "implemented"}, {<<>>, ImageSpecs}, UploadInputs,
                  "handle_upload_files")

\* BaseUploader.handle_upload_files, entered: self.setup_directories() is next.
EnterHandleUploadFiles ==
    /\ pc = "handle_upload_files"
    /\ impl = "plugin"
    /\ pc' = "setup_directories"
    /\ UNCHANGED <<impl, file_specification, organized_files, current_files,
                   calls, log, tmpdirs, attempts, vres, result>>

\* self.setup_directories(); current_files = self.organized_files
SetupDirectories ==
    /\ pc = "setup_directories"
    /\ calls' = Append(calls, Stage("setup_directories", <<>>, <<>>))
    /\ current_files' = organized_files
    /\ pc' = "organize_files"
    /\ UNCHANGED <<impl, file_specification, organized_files, log, tmpdirs,
                   attempts, vres, result>>

\* current_files = self.organize_files(current_files)
OrganizeFiles ==
    /\ pc = "organize_files"
    /\ calls' = Append(calls, Stage("organize_files", current_files, current_files))
    /\ current_files' = current_files
    /\ pc' = "before_process"
    /\ UNCHANGED <<impl, file_specification, organized_files, log, tmpdirs,
                   attempts, vres, result>>

\* What the external calls can do for the groups from g on: they are only
\* made for a group that holds a PDF.
RECURSIVE OutcomeLists(_, _)
OutcomeLists(files, g) ==
    IF g > Len(files) THEN {<<>>}
    ELSE LET here == IF PdfSlot(files[g].files, 1) = 0 THEN {ConvertRaises}
                     ELSE Outcomes
         IN UNION {{<<oc>> \o rest : rest \in OutcomeLists(files, g + 1)} :
                      oc \in here}

\* r = self.before_process(files), the external calls doing ocs: the state
\* it leaves.
RunBeforeProcess(files, ocs) ==
    LET r == before_process(files, ocs, tmpdirs) IN
    /\ calls' = Append(calls, Stage("before_process", files, r.out))
    /\ current_files' = r.out
    /\ log' = log \o r.lines
    /\ tmpdirs' = r.tmp
    /\ attempts' = r.attempts

\* current_files = self.before_process(current_files)
BeforeProcess ==
    /\ pc = "before_process"
    /\ \E ocs \in OutcomeLists(current_files, 1) :
          RunBeforeProcess(current_files, ocs)
    /\ pc' = "process_files"
    /\ UNCHANGED <<impl, file_specification, organized_files, vres, result>>

\* handle_upload_files going from before_process straight to after_process.
ProcessFiles_Skipped ==
    /\ pc = "process_files"
    /\ pc' = "after_process"
    /\ UNCHANGED <<impl, file_specification, organized_files, current_files,
                   calls, log, tmpdirs, attempts, vres, result>>

\* current_files = self.process_files(current_files)
ProcessFiles ==
    /\ pc = "process_files"
    /\ calls' = Append(calls, Stage("process_files", current_files, current_files))
    /\ current_files' = current_files
    /\ pc' = "after_process"
    /\ UNCHANGED <<impl, file_specification, organized_files, log, tmpdirs,
                   attempts, vres, result>>

\* current_files = self.after_process(current_files)
AfterProcess ==
    /\ pc = "after_process"
    /\ calls' = Append(calls, Stage("after_process", current_files, current_files))
    /\ current_files' = current_files
    /\ pc' = "validate_files"
    /\ UNCHANGED <<impl, file_specification, organized_files, log, tmpdirs,
                   attempts, vres, result>>

\* current_files = self.validate_files(current_files)
ValidateFiles ==
    /\ pc = "validate_files"
    /\ LET v   == BaseValidate(file_specification, current_files)
           ret == BaseFilterValidFiles(v.valid)
       IN /\ vres' = Append(vres, [call |-> "validate_files",
                                   arg |-> current_files, res |-> v])
          /\ log' = log \o v.lines
          /\ calls' = Append(calls, Stage("validate_files", current_files, ret))
          /\ current_files' = ret
    /\ pc' = "return"
    /\ UNCHANGED <<impl, file_specification, organized_files, tmpdirs,
                   attempts, result>>

\* return current_files
ReturnFiles ==
    /\ pc = "return"
    /\ result' = Returned(current_files)
    /\ pc' = "done"
    /\ UNCHANGED <<impl, file_specification, organized_files, current_files,
                   calls, log, tmpdirs, attempts, vres>>

\* implemented_code.Uploader.handle_upload_files
ImplHandleUploadFiles ==
    /\ pc = "handle_upload_files"
    /\ impl = "implemented"
    /\ IF organized_files # <<>> /\ file_specification # <<>>
         THEN LET v == ImplValidate(file_specification, organized_files) IN
              /\ vres' = Append(vres, [call |-> "handle_upload_files",
                                       arg |-> organized_files, res |-> v])
              /\ log' = log \o v.lines
              /\ result' = IF v.raised = "" THEN Returned(v.valid)
                           ELSE Raised(v.raised)
         ELSE /\ result' = Returned(organized_files)
              /\ UNCHANGED <<vres, log>>
    /\ pc' = "done"
    /\ UNCHANGED <<impl, file_specification, organized_files, current_files,
                   calls, tmpdirs, attempts>>

Next ==
    \/ EnterHandleUploadFiles
    \/ SetupDirectories
    \/ OrganizeFiles
    \/ BeforeProcess
    \/ ProcessFiles
    \/ AfterProcess
    \/ ValidateFiles
    \/ ReturnFiles
    \/ ImplHandleUploadFiles

Spec == Init /\ [][Next]_vars

(***************************************************************************)
(* before_process called on its own.                                       *)
(***************************************************************************)
InitConvert == InitState({"plugin"}, {ImageSpecs}, ConvertInputs,
                         "call_before_process")

\* uploader.before_process(organized_files)
CallBeforeProcess ==
    /\ pc = "call_before_process"
    /\ \E ocs \in OutcomeLists(organized_files, 1) :
          RunBeforeProcess(organized_files, ocs)
    /\ result' = Returned(current_files')
    /\ pc' = "done"
    /\ UNCHANGED <<impl, file_specification, organized_files, vres>>

NextConvert == CallBeforeProcess

SpecConvert == InitConvert /\ [][NextConvert]_vars

(***************************************************************************)
(* validate_file_types called on its own: on the organized files, on its   *)
(* own output, and on the organized files with their extensions in lower   *)
(* case.                                                                   *)
(***************************************************************************)
InitValidate == InitState({"plugin", "implemented"}, SpecLists, ValidatorInputs,
                          "validate_file_types")

LowerValue(value) ==
    [value EXCEPT !.items = [i \in 1..Len(value.items) |->
                                [value.items[i] EXCEPT !.suffix = Lower(@)]]]

LowerGroup(group) ==
    [group EXCEPT !.files = [i \in 1..Len(group.files) |->
                                [group.files[i] EXCEPT !.value = LowerValue(@)]]]

\* groups with every extension in lower case
LowerSuffixes(groups) == [g \in 1..Len(groups) |-> LowerGroup(groups[g])]

\* v = uploader.validate_file_types(arg)
RunValidate(call, arg) ==
    LET v == Validate(impl, file_specification, arg) IN
    /\ vres' = Append(vres, [call |-> call, arg |-> arg, res |-> v])
    /\ log' = log \o v.lines
    /\ result' = IF v.raised = "" THEN Returned(v.valid) ELSE Raised(v.raised)

\* uploader.validate_file_types(organized_files)
CallValidate ==
    /\ pc = "validate_file_types"
    /\ RunValidate("first", organized_files)
    /\ pc' = IF result'.raised = "" THEN "validate_again" ELSE "validate_lowered"
    /\ UNCHANGED <<impl, file_specification, organized_files, current_files,
                   calls, tmpdirs, attempts>>

\* uploader.validate_file_types(valid), valid the list the first call returned
CallValidateAgain ==
    /\ pc = "validate_again"
    /\ RunValidate("again", vres[1].res.valid)
    /\ pc' = "validate_lowered"
    /\ UNCHANGED <<impl, file_specification, organized_files, current_files,
                   calls, tmpdirs, attempts>>

\* uploader.validate_file_types(organized_files in lower case)
CallValidateLowered ==
    /\ pc = "validate_lowered"
    /\ RunValidate("lowered", LowerSuffixes(organized_files))
    /\ pc' = "done"
    /\ UNCHANGED <<impl, file_specification, organized_files, current_files,
                   calls, tmpdirs, attempts>>

NextValidate ==
    \/ CallValidate
    \/ CallValidateAgain
    \/ CallValidateLowered

SpecValidate == InitValidate /\ [][NextValidate]_vars

(***************************************************************************)
(* Properties.                                                             *)
(***************************************************************************)
StageOrder ==
    <<"setup_directories", "organize_files", "before_process",
      "process_files", "after_process", "validate_files">>

\* The stages invoked so far are the first stages of the fixed order, each
\* after setup given what the stage before it returned.
StagesChained ==
    /\ Len(calls) <= Len(StageOrder)
    /\ \A i \in 1..Len(calls) : calls[i].stage = StageOrder[i]
    /\ Len(calls) >= 2 => calls[2].arg = organized_files
    /\ \A i \in 3..Len(calls) : calls[i].arg = calls[i - 1].ret

\* A finished call has run all six stages and returned validate_files' list.
AllStagesRun ==
    pc = "done" =>
       /\ Len(calls) = Len(StageOrder)
       /\ result = Returned(calls[Len(StageOrder)].ret)

\* C1 as stated, of every handle_upload_files: the stages run in the fixed
\* order, each exactly once, each given the list the stage before returned,
\* and the caller gets validate_files' list.
C1_AsStated == StagesChained /\ AllStagesRun

\* C1 (amended): BaseUploader.handle_upload_files, which
\* plugin.upload.Uploader inherits, runs setup_directories, organize_files,
\* before_process, process_files, after_process, validate_files in this
\* order, each exactly once, organize_files on the constructor's
\* organized_files and every later stage on the list the stage before it
\* returned, and returns validate_files' list.  implemented_code.Uploader's
\* handle_upload_files runs none of these stages: it ends with the outcome of
\* its validate_file_types(organized_files) when organized_files and
\* file_specification are both non-empty, and returns organized_files
\* otherwise.
C1_StageOrder ==
    /\ impl = "plugin" => StagesChained /\ AllStagesRun
    /\ impl = "implemented" =>
          /\ calls = <<>>
          /\ pc = "done" =>
                IF organized_files # <<>> /\ file_specification # <<>>
                  THEN /\ Len(vres) = 1
                       /\ vres[1].arg = organized_files
                       /\ result = IF vres[1].res.raised = ""
                                     THEN Returned(vres[1].res.valid)
                                     ELSE Raised(vres[1].res.raised)
                  ELSE vres = <<>> /\ result = Returned(organized_files)

\* A finished run of the pipeline in which the conversion and the validation
\* both changed the list.
C1_Witness ==
    /\ impl = "plugin"
    /\ pc = "done"
    /\ Len(calls) = 6
    /\ calls[3].ret # calls[3].arg
    /\ calls[6].ret # calls[6].arg
    /\ result.files # <<>>

\* The calls of validate_file_types made so far, and those that returned.
ValidatorCalls == {vres[i] : i \in 1..Len(vres)}

ReturnedCalls == {c \in ValidatorCalls : c.res.raised = ""}

\* The extension table of the class that was constructed.
ExtensionTable ==
    IF impl = "plugin" THEN get_file_extensions_config ELSE allowed_extensions

\* A files entry that names a specification and holds a file, its lowercase
\* extension, its category and its declared file_type.
Checkable(e) == FindSpec(file_specification, e.name) # 0 /\ Len(e.value.items) >= 1

ExtOf(e) == Lower(e.value.items[1].suffix)

CategoryOf(e) == FirstSegment(e.name)

FileTypeOf(e) == file_specification[FindSpec(file_specification, e.name)].file_type

\* The category-or-type extension check: the category's list when the
\* category is a key of the table, else the file_type's list when that is a
\* key, else nothing to check.
CategoryOrTypeCheck(e) ==
    IF CategoryOf(e) \in DOMAIN ExtensionTable
      THEN InList(ExtOf(e), ExtensionTable[CategoryOf(e)])
    ELSE IF FileTypeOf(e) \in DOMAIN ExtensionTable
      THEN InList(ExtOf(e), ExtensionTable[FileTypeOf(e)])
    ELSE TRUE

\* The file_type check alone.
TypeCheck(e) ==
    FileTypeOf(e) \in DOMAIN ExtensionTable
       => InList(ExtOf(e), ExtensionTable[FileTypeOf(e)])

NeedsConversion(e) == ExtOf(e) \in DOMAIN conversion_warnings

Entries(group) == Range(group.files)

Kept(c, g) == g \in Range(c.res.kept)

\* C2 as stated, of both validators: a returned group passes the
\* category-or-type check in every slot with a resolvable spec, and an
\* excluded group has a slot that fails it or needs conversion.
C2_AsStated ==
    \A c \in ReturnedCalls : \A g \in 1..Len(c.arg) :
       IF Kept(c, g)
         THEN \A e \in Entries(c.arg[g]) : Checkable(e) => CategoryOrTypeCheck(e)
         ELSE \E e \in Entries(c.arg[g]) :
                 Checkable(e) /\ (~CategoryOrTypeCheck(e) \/ NeedsConversion(e))

\* C2 (amended): whenever implemented_code's validate_file_types returns,
\* every group of its output passes the category-or-type check (category
\* first, file_type as fallback) in every slot and holds no extension of the
\* conversion-warning table, and every input group absent from the output has
\* a slot that fails the check or whose extension is a key of that table.
\* BaseUploader's validate_file_types has neither a category check nor a
\* warning table: every group of its output passes the file_type check in
\* every slot with a resolvable spec and a file, and every excluded group has
\* such a slot that fails the file_type check.
C2_Exclusivity ==
    \A c \in ReturnedCalls : \A g \in 1..Len(c.arg) :
       IF impl = "implemented"
         THEN IF Kept(c, g)
                THEN \A e \in Entries(c.arg[g]) :
                        Checkable(e) /\ CategoryOrTypeCheck(e) /\ ~NeedsConversion(e)
                ELSE \E e \in Entries(c.arg[g]) :
                        Checkable(e) /\ (~CategoryOrTypeCheck(e) \/ NeedsConversion(e))
         ELSE IF Kept(c, g)
                THEN \A e \in Entries(c.arg[g]) : Checkable(e) => TypeCheck(e)
                ELSE \E e \in Entries(c.arg[g]) : Checkable(e) /\ ~TypeCheck(e)

\* implemented_code's validator returned a list that keeps one group and
\* leaves out another.
C2_Witness ==
    \E c \in ReturnedCalls :
       /\ impl = "implemented"
       /\ c.call = "first"
       /\ Len(c.arg) = 2
       /\ Len(c.res.valid) = 1

\* Slot i of group g of call c, of implemented_code's validator, holds one
\* file whose lowercase extension is a key of the conversion-warning table
\* and has a resolvable spec.
WarnSlot(c, g, i) ==
    LET e == c.arg[g].files[i] IN
    /\ FindSpec(file_specification, e.name) # 0
    /\ ImplIsPath(e.value)
    /\ NeedsConversion(e)

\* The scan of group g stopped at slot i recording a warning for its
\* extension, and group g was not appended to valid_files.
WarningRecorded(c, g, i) ==
    /\ g <= Len(c.res.trace)
    /\ c.res.trace[g].slot = i
    /\ c.res.trace[g].step = SlotWarning(ExtOf(c.arg[g].files[i]))
    /\ ~Kept(c, g)

\* C3 as stated: for every slot with a resolvable spec and an extension of
\* the conversion-warning table, the validator records a warning for the
\* slot's group and excludes the group.
C3_AsStated ==
    impl = "implemented" =>
       \A c \in ReturnedCalls : \A g \in 1..Len(c.arg) :
          \A i \in 1..Len(c.arg[g].files) :
             WarnSlot(c, g, i) =>
                /\ c.res.trace[g].step.kind = "warning"
                /\ ~Kept(c, g)

\* C3 (amended): whenever the slot loop of implemented_code's validator
\* reaches a slot with a resolvable spec that holds one file whose lowercase
\* extension is a key of the conversion-warning table, it records a warning
\* with that extension for the slot, stops scanning the group and does not
\* append the group to the valid list; the allow-lists are not consulted for
\* it.  A slot the loop never reaches, because an earlier slot of its group
\* stopped the scan, gets no warning.
C3_WarningPrecedence ==
    impl = "implemented" =>
       \A c \in ValidatorCalls : \A g \in 1..Len(c.res.trace) :
          \A i \in 1..c.res.trace[g].slot :
             WarnSlot(c, g, i) => WarningRecorded(c, g, i)

\* The loop passed a first slot and reached a second one that needs
\* conversion, in a call that returned.
C3_Witness ==
    /\ impl = "implemented"
    /\ \E c \in ReturnedCalls : \E g \in 1..Len(c.arg) :
          /\ Len(c.arg[g].files) = 2
          /\ WarnSlot(c, g, 2)
          /\ WarningRecorded(c, g, 2)

\* The groups before_process emitted for input group g, in output order.
Block(g) ==
    SubSeq(current_files, attempts[g].first,
           attempts[g].first + attempts[g].count - 1)

\* Input group g of a finished before_process held a PDF and every external
\* call of its conversion succeeded.
Converted(g) ==
    /\ attempts[g].slot # 0
    /\ ~attempts[g].oc.raises
    /\ attempts[g].oc.failAt = 0

\* Input group g held a PDF and an external call of its conversion raised.
ConversionFailed(g) ==
    /\ attempts[g].slot # 0
    /\ attempts[g].oc.raises \/ attempts[g].oc.failAt # 0

BeforeProcessInput == calls[Len(calls)].arg

BeforeProcessDone ==
    /\ calls # <<>>
    /\ calls[Len(calls)].stage = "before_process"

\* A group that carries the meta entries of a conversion.
IsPageGroup(group) == group.meta.extraction_library = "pdf2image"

HasConversionMeta(group) ==
    \/ group.meta.total_pages # NoMeta.total_pages
    \/ group.meta.page_number # NoMeta.page_number
    \/ group.meta.original_filename # NoMeta.original_filename
    \/ group.meta.extraction_library # NoMeta.extraction_library

\* The first slot of a files dict that holds a file with the extension
\* .pdf in any letter case (0: none).
FirstConvertible(files) ==
    LET pdfs == {i \in 1..Len(files) :
                   /\ Len(files[i].value.items) >= 1
                   /\ files[i].value.items[1].suffix \in {".pdf", ".PDF"}}
    IN IF pdfs = {} THEN 0
       ELSE CHOOSE i \in pdfs : \A j \in pdfs : i <= j

\* C4: the conversion is attempted on the first convertible slot of every
\* group; a group whose first PDF converts to N pages is replaced by exactly N
\* groups, the k-th with page_number k, total_pages N and one image at the
\* document's slot name; the image paths of all page groups of the output
\* are pairwise distinct; the original group is not among the N.
C4_FanOut ==
    BeforeProcessDone =>
       /\ \A g \in 1..Len(attempts) :
             attempts[g].slot = FirstConvertible(BeforeProcessInput[g].files)
       /\ \A g \in 1..Len(attempts) :
             Converted(g) =>
                LET orig == BeforeProcessInput[g]
                    name == orig.files[attempts[g].slot].name
                    N    == attempts[g].oc.pages
                IN /\ attempts[g].count = N
                   /\ \A k \in 1..N :
                         /\ Block(g)[k].meta.page_number = k
                         /\ Block(g)[k].meta.total_pages = N
                         /\ Len(Block(g)[k].files) = 1
                         /\ Block(g)[k].files[1].name = name
                         /\ Block(g)[k].files[1].value.items[1].suffix = ".png"
                         /\ Block(g)[k] # orig
                         /\ Block(g)[k].files # orig.files
       /\ \A p, q \in 1..Len(current_files) :
             /\ p # q
             /\ IsPageGroup(current_files[p])
             /\ IsPageGroup(current_files[q])
             => current_files[p].files[1].value # current_files[q].files[1].value

\* Two documents of the same list were converted, one of them to two pages
\* or more.
C4_Witness ==
    /\ BeforeProcessDone
    /\ \E g, h \in 1..Len(attempts) :
          /\ g # h
          /\ Converted(g) /\ attempts[g].oc.pages >= 2
          /\ Converted(h) /\ attempts[h].oc.pages >= 1

\* C5 as stated: a group whose conversion raised, in convert_from_path or in
\* the save of any page, contributes exactly one group to the output, the
\* original with its files and without conversion meta, no page group, and
\* one error line.
C5_FailureFallback ==
    BeforeProcessDone =>
       \A g \in 1..Len(attempts) :
          ConversionFailed(g) =>
             /\ attempts[g].count = 1
             /\ \A k \in 1..attempts[g].count :
                   /\ ~IsPageGroup(Block(g)[k])
                   /\ ~HasConversionMeta(Block(g)[k])
                   /\ Block(g)[k].files = BeforeProcessInput[g].files
             /\ Cardinality({k \in 1..Len(attempts[g].lines) :
                    attempts[g].lines[k].kind = "error_converting"}) = 1

\* image.save raised on the second page of a document.
C5_Witness ==
    /\ BeforeProcessDone
    /\ \E g \in 1..Len(attempts) :
          attempts[g].slot # 0 /\ attempts[g].oc.failAt = 2

\* The slot loop of call c reached slot i of group g.
Reached(c, g, i) ==
    /\ g <= Len(c.res.trace)
    /\ c.res.trace[g].step.kind = "pass" \/ i <= c.res.trace[g].slot

\* The slot loop of call c went past slot i of group g without stopping.
Passed(c, g, i) ==
    /\ g <= Len(c.res.trace)
    /\ c.res.trace[g].step.kind = "pass" \/ i < c.res.trace[g].slot

\* The slot loop of call c ended at slot i of group g.
StoppedAt(c, g, i) ==
    /\ g <= Len(c.res.trace)
    /\ c.res.trace[g].step.kind # "pass"
    /\ c.res.trace[g].slot = i

\* C6 as stated: a slot whose name matches no specification does not stop
\* the scan of its group: it raises nothing, records no violation, and the
\* loop goes on to the next slot.
C6_MissingSpecSkipped ==
    file_specification # <<>> =>
       \A c \in ValidatorCalls : \A g \in 1..Len(c.res.trace) :
          \A i \in 1..Len(c.arg[g].files) :
             FindSpec(file_specification, c.arg[g].files[i].name) = 0
                => ~StoppedAt(c, g, i)

\* implemented_code's validator reached a slot without a specification.
C6_Witness ==
    /\ impl = "implemented"
    /\ file_specification # <<>>
    /\ \E c \in ValidatorCalls : \E g \in 1..Len(c.res.trace) :
          \E i \in 1..Len(c.arg[g].files) :
             /\ FindSpec(file_specification, c.arg[g].files[i].name) = 0
             /\ Reached(c, g, i)

\* C7: validating the list a first pass returned gives that list back, with
\* no group excluded, no violation recorded and nothing logged.
C7_Idempotent ==
    \A c \in ValidatorCalls :
       c.call = "again" =>
          /\ c.arg = vres[1].res.valid
          /\ c.res.raised = ""
          /\ c.res.valid = c.arg
          /\ c.res.kept = [i \in 1..Len(c.arg) |-> i]
          /\ c.res.violations = <<>>
          /\ c.res.lines = <<>>

\* A second pass was made over a list from which the first pass had excluded
\* a group and kept another.
C7_Witness ==
    \E c \in ValidatorCalls :
       /\ c.call = "again"
       /\ c.arg # <<>>
       /\ Len(c.arg) < Len(organized_files)

\* The reports of call c that cover extension ext found in the slot named
\* name, declared file_type.
Reports(c, name, file_type, ext) ==
    IF impl = "implemented"
      THEN {k \in 1..Len(c.res.lines) :
              /\ c.res.lines[k].kind = "validation"
              /\ c.res.lines[k].name = name
              /\ InList(ext, c.res.lines[k].exts)}
      ELSE {k \in 1..Len(c.res.lines) :
              /\ c.res.lines[k].file_type = file_type
              /\ ext \in c.res.lines[k].extensions}

\* C8 as stated: every group excluded for an extension mismatch has its
\* slot and extension in exactly one report of the pass.
C8_ReportedOnce ==
    \A c \in ReturnedCalls : \A g \in 1..Len(c.res.trace) :
       c.res.trace[g].step.kind = "invalid" =>
          LET e == c.arg[g].files[c.res.trace[g].slot] IN
          Cardinality(Reports(c, e.name, FileTypeOf(e), c.res.trace[g].step.ext)) = 1

\* Two groups of one pass of implemented_code's validator were excluded for
\* different extensions in the same slot.
C8_Witness ==
    /\ impl = "implemented"
    /\ \E c \in ReturnedCalls :
          /\ Len(c.res.trace) = 2
          /\ c.res.trace[1].step.kind = "invalid"
          /\ c.res.trace[2].step.kind = "invalid"
          /\ c.res.trace[1].step.ext # c.res.trace[2].step.ext
          /\ c.arg[1].files[c.res.trace[1].slot].name
                = c.arg[2].files[c.res.trace[2].slot].name

\* C9: the pass over the input with its extensions in lower case ends as the
\* pass over the input itself: the same exception or the same groups kept
\* and excluded, the same violations recorded, the same lines logged.
C9_CaseInsensitive ==
    \A c \in ValidatorCalls :
       c.call = "lowered" =>
          /\ c.arg = LowerSuffixes(organized_files)
          /\ c.res.raised = vres[1].res.raised
          /\ c.res.kept = vres[1].res.kept
          /\ c.res.trace = vres[1].res.trace
          /\ c.res.violations = vres[1].res.violations
          /\ c.res.lines = vres[1].res.lines
          /\ Len(c.res.valid) = Len(vres[1].res.valid)
          /\ \A k \in 1..Len(c.res.valid) :
                /\ c.res.valid[k] = c.arg[c.res.kept[k]]
                /\ vres[1].res.valid[k] = organized_files[vres[1].res.kept[k]]

\* Both passes were made over inputs that differ in the case of an
\* extension, one group kept and one excluded.
C9_Witness ==
    \E c \in ReturnedCalls :
       /\ c.call = "lowered"
       /\ c.arg # organized_files
       /\ Len(c.res.valid) = 1
       /\ Len(c.arg) = 2
       /\ c.res.valid[1] # vres[1].res.valid[1]

\* C10 as stated, of both validators: a slot whose category is a key of the
\* extension table passes exactly when its extension is in the category's
\* list.
C10_AsStated ==
    \A c \in ValidatorCalls : \A g \in 1..Len(c.res.trace) :
       \A i \in 1..Len(c.arg[g].files) :
          LET e == c.arg[g].files[i] IN
          Reached(c, g, i) /\ Checkable(e) /\ CategoryOf(e) \in DOMAIN ExtensionTable
             => (Passed(c, g, i) <=> InList(ExtOf(e), ExtensionTable[CategoryOf(e)]))

\* C10 (amended): in implemented_code's validator a slot the scan reaches,
\* with a resolvable spec and one file, whose category is a key of the
\* extension table passes exactly when its extension is in the category's
\* list whatever its file_type, and is otherwise, unless the extension needs
\* conversion, rejected with expected = extensions[category]; the
\* file_type's list decides only when the category is not a key.  So
\* 'image_0' declared 'video' and holding 'x.mp4' is rejected with expected
\* = extensions['image'].  BaseUploader's validator never looks at the
\* category: there a slot passes exactly when its file_type is not a key or
\* its extension is in the file_type's list.
C10_CategoryPrecedence ==
    \A c \in ValidatorCalls : \A g \in 1..Len(c.res.trace) :
       \A i \in 1..Len(c.arg[g].files) :
          LET e == c.arg[g].files[i] IN
          Reached(c, g, i) /\ Checkable(e) =>
             IF impl = "plugin"
               THEN Passed(c, g, i) <=> TypeCheck(e)
             ELSE IF CategoryOf(e) \in DOMAIN allowed_extensions
               THEN /\ Passed(c, g, i)
                          <=> InList(ExtOf(e), allowed_extensions[CategoryOf(e)])
                    /\ ~Passed(c, g, i) /\ ~NeedsConversion(e)
                          => c.res.trace[g].step
                                = SlotInvalid(ExtOf(e), allowed_extensions[CategoryOf(e)])
             ELSE FileTypeOf(e) \in DOMAIN allowed_extensions
                     => (Passed(c, g, i)
                           <=> InList(ExtOf(e), allowed_extensions[FileTypeOf(e)]))

\* implemented_code's validator rejected an .mp4 in image_0, declared a
\* video, expecting the image extensions.
C10_Witness ==
    /\ impl = "implemented"
    /\ \E c \in ReturnedCalls : \E g \in 1..Len(c.res.trace) :
          /\ StoppedAt(c, g, 1)
          /\ c.arg[g].files[1].name = image_0
          /\ FileTypeOf(c.arg[g].files[1]) = "video"
          /\ c.res.trace[g].step = SlotInvalid(".mp4", allowed_extensions.image)

\* Slot i of group g of call c, of implemented_code's validator, has a
\* resolvable spec and one file, its category is no key of
\* allowed_extensions, its file_type is one, and its extension is neither in
\* the file_type's list nor a conversion-warning key.
TypeFallbackFails(c, g, i) ==
    LET e == c.arg[g].files[i] IN
    /\ Checkable(e)
    /\ ImplIsPath(e.value)
    /\ CategoryOf(e) \notin DOMAIN allowed_extensions
    /\ FileTypeOf(e) \in DOMAIN allowed_extensions
    /\ ~InList(ExtOf(e), allowed_extensions[FileTypeOf(e)])
    /\ ~NeedsConversion(e)

\* C11 as stated: when the scan reaches a slot whose category is no key of
\* the extension table, whose file_type is a key and whose extension is not
\* in the file_type's list, the validator returns normally, the scan of the
\* group stops at the slot with an invalid-extension record whose expected
\* list is extensions[file_type], the group is excluded, the record is among
\* the violations, and every group of the input is scanned.
C11_FallbackRecorded ==
    impl = "implemented" =>
       \A c \in ValidatorCalls : \A g \in 1..Len(c.res.trace) :
          \A i \in 1..Len(c.arg[g].files) :
             Reached(c, g, i) /\ TypeFallbackFails(c, g, i) =>
                LET e == c.arg[g].files[i] IN
                /\ c.res.raised = ""
                /\ StoppedAt(c, g, i)
                /\ c.res.trace[g].step
                      = SlotInvalid(ExtOf(e), allowed_extensions[FileTypeOf(e)])
                /\ ~Kept(c, g)
                /\ Len(c.res.trace) = Len(c.arg)
                /\ \E k \in 1..Len(c.res.violations) :
                      c.res.violations[k].key = e.name

\* The scan of implemented_code's validator reached a slot whose type-check
\* fallback fails.
C11_Witness ==
    /\ impl = "implemented"
    /\ \E c \in ValidatorCalls : \E g \in 1..Len(c.res.trace) :
          \E i \in 1..Len(c.arg[g].files) :
             Reached(c, g, i) /\ TypeFallbackFails(c, g, i)

\* The blocks of a finished before_process lie one after the other in the
\* output, in the order of the input groups, and cover it.
BlocksTile ==
    /\ Len(attempts) = Len(BeforeProcessInput)
    /\ \A g \in 1..Len(attempts) :
          attempts[g].first
             = (IF g = 1 THEN 1
                ELSE attempts[g - 1].first + attempts[g - 1].count)
    /\ Len(current_files)
          = (IF attempts = <<>> THEN 0
             ELSE attempts[Len(attempts)].first
                     + attempts[Len(attempts)].count - 1)

\* The number of temporary directories made up to input group g: one for
\* each document whose convert_from_path call returned.
DirsUpTo(g) ==
    Cardinality({h \in 1..g : attempts[h].slot # 0 /\ ~attempts[h].oc.raises})

\* Block g holds the N pages of input group g's document in increasing page
\* number, all in the directory made for that document.
PagesInOrder(g) ==
    LET N == attempts[g].oc.pages IN
    /\ attempts[g].count = N
    /\ \A k \in 1..N :
          /\ IsPageGroup(Block(g)[k])
          /\ Block(g)[k].meta.page_number = k
          /\ Block(g)[k].files[1].value.items[1].dir = DirsUpTo(g)
          /\ Block(g)[k].files[1].value.items[1].page = k

\* Block g is input group g and nothing else.
OriginalAlone(g) ==
    /\ attempts[g].count = 1
    /\ Block(g)[1] = BeforeProcessInput[g]

\* C12 as stated: the output of before_process is the concatenation, in
\* input order, of one block per input group; the block of a successfully
\* converted group is its page groups in increasing page number, and the
\* block of every other group, passed through, is that one group.
C12_BlockOrder ==
    BeforeProcessDone =>
       /\ BlocksTile
       /\ \A g \in 1..Len(attempts) :
             IF Converted(g) THEN PagesInOrder(g) ELSE OriginalAlone(g)

\* A list of two groups, one without a document and one whose second page
\* could not be saved, went through before_process.
C12_Witness ==
    /\ BeforeProcessDone
    /\ Len(attempts) = 2
    /\ \E g, h \in 1..2 :
          /\ attempts[g].slot = 0
          /\ attempts[h].slot # 0 /\ attempts[h].oc.failAt = 2

\* Slot i of group g of call c has a resolvable spec and holds a list of
\* length 0.
EmptyListSlot(c, g, i) ==
    LET e == c.arg[g].files[i] IN
    /\ FindSpec(file_specification, e.name) # 0
    /\ e.value.list
    /\ Len(e.value.items) = 0

\* C13 as stated: a slot with a resolvable spec that holds an empty list
\* never ends the scan of its group: nothing is raised at it, no violation
\* is recorded for it, and the loop goes on to the slots after it.
C13_EmptyListSkipped ==
    \A c \in ValidatorCalls : \A g \in 1..Len(c.res.trace) :
       \A i \in 1..Len(c.arg[g].files) :
          EmptyListSlot(c, g, i) => ~StoppedAt(c, g, i)

\* The scan of implemented_code's validator reached a slot that holds an
\* empty list and has a resolvable spec.
C13_Witness ==
    /\ impl = "implemented"
    /\ \E c \in ValidatorCalls : \E g \in 1..Len(c.res.trace) :
          \E i \in 1..Len(c.arg[g].files) :
             EmptyListSlot(c, g, i) /\ Reached(c, g, i)

\* C14: a validator that returns gives back an order-preserving subsequence
\* of its argument: every returned group is the input group at a position
\* of the argument, files and meta as they were, the positions strictly
\* increase, so no group is added, repeated or moved; and the list the
\* validator was given is the constructor's list as it was before the call.
C14_OnlyFilters ==
    /\ \A c \in ReturnedCalls :
          /\ Len(c.res.valid) = Len(c.res.kept)
          /\ Len(c.res.valid) <= Len(c.arg)
          /\ \A k \in 1..Len(c.res.kept) :
                /\ c.res.kept[k] \in 1..Len(c.arg)
                /\ c.res.valid[k] = c.arg[c.res.kept[k]]
                /\ \A j \in 1..(k - 1) : c.res.kept[j] < c.res.kept[k]
    /\ \A c \in ValidatorCalls :
          c.call = "first" => c.arg = organized_files

\* implemented_code's validator kept both of two different groups.
C14_Witness ==
    /\ impl = "implemented"
    /\ \E c \in ReturnedCalls :
          /\ c.call = "first"
          /\ Len(c.arg) = 2
          /\ c.arg[1] # c.arg[2]
          /\ Len(c.res.valid) = 2

\* The input group whose block holds position p of the output.
BlockOf(p) ==
    CHOOSE g \in 1..Len(attempts) :
       p \in attempts[g].first..(attempts[g].first + attempts[g].count - 1)

\* C15: every page group in the output of before_process has exactly one
\* files entry, a generated image at the slot name of its group's first
\* document; a successfully converted group is not emitted itself, and an
\* entry of one of its other slots (a second document included) is found in
\* the output only in the blocks of other input groups that hold the same
\* entry themselves.
C15_OneFilesKey ==
    BeforeProcessDone =>
       /\ BlocksTile
       /\ \A p \in 1..Len(current_files) :
             IsPageGroup(current_files[p]) =>
                LET g    == BlockOf(p)
                    orig == BeforeProcessInput[g]
                IN /\ attempts[g].slot # 0
                   /\ Len(current_files[p].files) = 1
                   /\ current_files[p].files[1].name = orig.files[attempts[g].slot].name
                   /\ current_files[p].files[1].value.items[1].dir > 0
                   /\ current_files[p].files[1].value \notin
                         {orig.files[j].value : j \in 1..Len(orig.files)}
       /\ \A g \in 1..Len(attempts) :
             Converted(g) =>
                LET orig == BeforeProcessInput[g] IN
                /\ \A k \in 1..attempts[g].count : IsPageGroup(Block(g)[k])
                /\ \A j \in 1..Len(orig.files) :
                      j # attempts[g].slot =>
                         \A p \in 1..Len(current_files) :
                            orig.files[j] \in Range(current_files[p].files) =>
                               /\ BlockOf(p) # g
                               /\ orig.files[j] \in
                                     Range(BeforeProcessInput[BlockOf(p)].files)

\* A group that holds two documents was converted to one page or more.
C15_Witness ==
    /\ BeforeProcessDone
    /\ \E g \in 1..Len(attempts) :
          /\ Converted(g)
          /\ attempts[g].oc.pages >= 1
          /\ Len(BeforeProcessInput[g].files) = 2
          /\ LET other == BeforeProcessInput[g].files[3 - attempts[g].slot]
             IN other.value.items[1].suffix \in {".pdf", ".PDF"}

=============================================================================
